---- MODULE Spec2Model ----
(***************************************************************************)
(* Model of the DGA-resolution package: basis construction (basis.py),     *)
(* the differential (differential.py), the multigraded product with        *)
(* unknown coefficients (product.py) and the graded Leibniz rule           *)
(* (leibniz.py), driven as main.py drives them.                            *)
(*                                                                         *)
(* Python tuples are sequences; a Python index i is the position i + 1.    *)
(* A basis key is <<monomial_coeff, s_basis_part>>, where s_basis_part is  *)
(* <<>> (homological degree 0) or << <<x_deg, y_deg>>, vertex_degs >>.     *)
(* An element of the free module is a function from terms <<u, key>> to    *)
(* nonzero integers, u being the unknown (or 1) that multiplies the key.   *)
(***************************************************************************)
EXTENDS Integers, Sequences, FiniteSets, TLC

VARIABLES
    pc,                     \* the call that returned last
    n_vertices,             \* number of vertices of the complete graph
    combination,            \* argument of combination_to_tuple
    total_degree,           \* argument of combination_to_tuple
    t,                      \* outcome of combination_to_tuple
    homological_degree,     \* argument of compute_basis_elements
    ring_degree,            \* argument of compute_basis_elements / r_degree
    basis,                  \* outcome of compute_basis_elements
    all_basis,              \* main's basis_at_degree, for each hdeg
    f1,                     \* first basis key
    f2,                     \* second basis key
    df1,                    \* differential(f1)
    ddf1,                   \* differential(differential(f1))
    product_fg,             \* compute_multigraded_product((f1, f2))
    product_gf,             \* compute_multigraded_product((f2, f1))
    swaps,                  \* recursive calls made while computing product_fg
    leibniz_expr,           \* compute_leibniz_expression(f1, f2, ...)
    d_product,              \* differential(product(f1 (x) f2))
    verified                \* verify_leibniz_rule(f1, f2, ...)

gradingVars == <<combination, total_degree, t>>
basisVars == <<homological_degree, ring_degree, basis, all_basis>>
elemVars == <<f1, f2>>
diffVars == <<df1, ddf1>>
prodVars == <<product_fg, product_gf, swaps>>
leibnizVars == <<leibniz_expr, d_product, verified>>
vars == <<pc, n_vertices, gradingVars, basisVars, elemVars, diffVars, prodVars, leibnizVars>>

\* Value of a variable that the running scenario has not assigned yet.
Unset == "unset"

----------------------------------------------------------------------------
(* Bounds of the model. *)

MaxVertices == 4
MaxCombinationLen == 3
MaxTotalDegree == 3
MaxRingDegree == 4
MaxCoeffDegree == 0
MaxLeibnizVertices == 3

\* main.py's configuration and demonstration elements.
MainVertices == 5

----------------------------------------------------------------------------
(* Python built-ins and the Sage collaborators. *)

RECURSIVE SumTuple(_)
SumTuple(s) == IF s = <<>> THEN 0 ELSE Head(s) + SumTuple(Tail(s))

Range(s) == {s[i] : i \in 1..Len(s)}

ZeroTuple(len) == [i \in 1..len |-> 0]

PrependAll(x, seqs) == [i \in 1..Len(seqs) |-> <<x>> \o seqs[i]]

\* The size-k sublists of lo, lo+1, ..., hi-1 in lexicographic order.
RECURSIVE CombinationsFrom(_, _, _)
CombinationsFrom(lo, hi, k) ==
    IF k = 0 THEN << <<>> >>
    ELSE IF hi - lo < k THEN <<>>
    ELSE PrependAll(lo, CombinationsFrom(lo + 1, hi, k - 1))
         \o CombinationsFrom(lo + 1, hi, k)

\* sage.all.Combinations(range(size), k), as the list it iterates over.
Combinations(size, k) == CombinationsFrom(0, size, k)

\* Outcome of a call: a returned value or a raised exception.
Return(v) == [ok |-> TRUE, val |-> v]
Raise(e) == [ok |-> FALSE, val |-> e]

----------------------------------------------------------------------------
(* The coefficient ring and the free module (Sage's PolynomialRing and     *)
(* CombinatorialFreeModule), as far as the package uses them.              *)

One == <<"1", 0>>
coeff_vars_a(index) == <<"A", index>>
coeff_vars_b(index) == <<"B", index>>

UnknownLeq(u, v) == \/ u[1] = "A" /\ v[1] = "B"
                    \/ u[1] = v[1] /\ u[2] <= v[2]

\* Product of two coefficient monomials; the package never multiplies two
\* unknowns, such a product is kept as a marked pair.
MulUnknown(u, v) ==
    IF u = One THEN v
    ELSE IF v = One THEN u
    ELSE IF UnknownLeq(u, v) THEN <<"*", u, v>> ELSE <<"*", v, u>>

Zero == [tm \in {} |-> 0]

Monomial(key) == [tm \in {<<One, key>>} |-> 1]

Coefficient(e, tm) == IF tm \in DOMAIN e THEN e[tm] ELSE 0

Add(a, b) ==
    LET support == {tm \in (DOMAIN a) \cup (DOMAIN b) :
                       Coefficient(a, tm) + Coefficient(b, tm) # 0}
    IN  [tm \in support |-> Coefficient(a, tm) + Coefficient(b, tm)]

Neg(a) == [tm \in DOMAIN a |-> 0 - a[tm]]

Sub(a, b) == Add(a, Neg(b))

\* c * u * e for a nonzero integer c and a coefficient monomial u.
Scale(c, u, e) ==
    LET image(tm) == <<MulUnknown(u, tm[1]), tm[2]>>
    IN  [s \in {image(tm) : tm \in DOMAIN e} |->
            c * e[CHOOSE tm \in DOMAIN e : image(tm) = s]]

\* Sum of the elements tagged in a set of <<tag, element>> pairs.
RECURSIVE SumAll(_)
SumAll(tagged) ==
    IF tagged = {} THEN Zero
    ELSE LET x == CHOOSE x \in tagged : TRUE
         IN  Add(x[2], SumAll(tagged \ {x}))

\* tensor([a, b]): the element of F (x) F with keys <<key_a, key_b>>.
tensor(a, b) ==
    LET pairs == (DOMAIN a) \X (DOMAIN b)
        image(p) == <<MulUnknown(p[1][1], p[2][1]), <<p[1][2], p[2][2]>> >>
    IN  [s \in {image(p) : p \in pairs} |->
            LET p == CHOOSE p \in pairs : image(p) = s IN a[p[1]] * b[p[2]]]

----------------------------------------------------------------------------
(* basis.py *)

\* The for loop of combination_to_tuple: the state of (t, j, i) after it.
\* i is unbound until the loop body has run once.
RECURSIVE GapLoop(_, _, _, _)
GapLoop(rest, acc, j, i) ==
    IF rest = <<>> THEN [t |-> acc, j |-> j, i |-> i]
    ELSE GapLoop(Tail(rest), Append(acc, Head(rest) - j - 1), Head(rest), <<Head(rest)>>)

ClosingGap(loop, comb, total) == total + Len(comb) - (loop.i[1] + 1)

combination_to_tuple(comb, total) ==
    IF comb = <<>> THEN Return(<<total>>)
    ELSE LET loop == GapLoop(Tail(comb), <<comb[1]>>, comb[1], <<>>)
         IN  IF loop.i = <<>> THEN Raise("UnboundLocalError")
             ELSE LET out == Append(loop.t, ClosingGap(loop, comb, total))
                  IN  IF Len(out) = Len(comb) + 1 /\ SumTuple(out) = total
                      THEN Return(out)
                      ELSE Raise("AssertionError")

\* The S-basis list: x_deg ascending outside, vertex combinations inside.
RECURSIVE SBasisFrom(_, _, _)
SBasisFrom(x_deg, h, vertex_combinations) ==
    IF x_deg > h THEN <<>>
    ELSE [i \in 1..Len(vertex_combinations) |->
             << <<x_deg, h + 1 - x_deg>>, vertex_combinations[i] >>]
         \o SBasisFrom(x_deg + 1, h, vertex_combinations)

\* Mutant: x_deg stops one short, range(1, homological_degree).
SBasisShort(h, n) ==
    IF h = 0 THEN << <<>> >>
    ELSE SBasisFrom(1, h - 1, Combinations(n, h + 1))

SBasis(h, n) ==
    IF h = 0 THEN << <<>> >>
    ELSE SBasisFrom(1, h, Combinations(n, h + 1))

CoeffDegree(h, r) == IF h = 0 THEN r ELSE r - (h + 1)

\* The nested loops of compute_basis_elements: coefficient combination
\* outside, S-basis element inside, one combination_to_tuple call per pair.
BasisLoop(coeff_combinations, s_basis, coeff_degree) ==
    LET nc == Len(coeff_combinations)
        ns == Len(s_basis)
        call(c) == combination_to_tuple(coeff_combinations[c], coeff_degree)
    IN  IF ns > 0 /\ \E c \in 1..nc : ~call(c).ok
        THEN call(CHOOSE c \in 1..nc : ~call(c).ok /\ \A b \in 1..(c - 1) : call(b).ok)
        ELSE Return([idx \in 1..(nc * ns) |->
                 << call(((idx - 1) \div ns) + 1).val, s_basis[((idx - 1) % ns) + 1] >>])

compute_basis_elements(h, r, n) ==
    LET coeff_degree == CoeffDegree(h, r)
    IN  IF coeff_degree < 0 THEN Return(<<>>)
        ELSE BasisLoop(Combinations(coeff_degree + 2 * n - 1, 2 * n - 1),
                       SBasis(h, n), coeff_degree)

----------------------------------------------------------------------------
(* differential.py *)

increment_tuple(tup, position) ==
    [i \in 1..Len(tup) |-> IF i - 1 = position THEN tup[i] + 1 ELSE tup[i]]

\* Mutant: the vertex is not removed.
RemoveAtKeep(tup, pos) == tup

\* tup[:idx] + tup[idx+1:], for pos = idx + 1.
RemoveAt(tup, pos) == SubSeq(tup, 1, pos - 1) \o SubSeq(tup, pos + 1, Len(tup))

\* Mutant: the x-branch sign does not alternate.
sign_xConstant(idx) == 1

sign_x(idx) == IF idx % 2 = 0 THEN 1 ELSE -1

\* Mutant: the y-branch sign is the reverse of the code's.
sign_yReversed(idx) == IF idx % 2 = 0 THEN 1 ELSE -1

sign_y(idx) == IF idx % 2 = 0 THEN -1 ELSE 1

\* One pass of the loop over enumerate(vertex_degs): what it adds to result.
DifferentialStep(idx, monomial_coeff, x_deg, y_deg, vertex_degs, n) ==
    LET vertex == vertex_degs[idx + 1]
        remaining_vertices == RemoveAt(vertex_degs, idx + 1)
        x_term == IF x_deg > 1
                  THEN Scale(sign_x(idx), One,
                             Monomial(<<increment_tuple(monomial_coeff, vertex),
                                        << <<x_deg - 1, y_deg>>, remaining_vertices >> >>))
                  ELSE Zero
        y_term == IF y_deg > 1
                  THEN Scale(sign_y(idx), One,
                             Monomial(<<increment_tuple(monomial_coeff, vertex + n),
                                        << <<x_deg, y_deg - 1>>, remaining_vertices >> >>))
                  ELSE Zero
    IN  Add(x_term, y_term)

RECURSIVE DifferentialLoop(_, _, _, _, _, _, _)
DifferentialLoop(idx, result, monomial_coeff, x_deg, y_deg, vertex_degs, n) ==
    IF idx >= Len(vertex_degs) THEN result
    ELSE DifferentialLoop(idx + 1,
             Add(result, DifferentialStep(idx, monomial_coeff, x_deg, y_deg, vertex_degs, n)),
             monomial_coeff, x_deg, y_deg, vertex_degs, n)

compute_differential(basis_element, n) ==
    LET monomial_coeff == basis_element[1]
        s_basis_part == basis_element[2]
    IN  IF s_basis_part = <<>> THEN Zero
        ELSE LET x_deg == s_basis_part[1][1]
                 y_deg == s_basis_part[1][2]
                 vertex_degs == s_basis_part[2]
             IN  IF Len(vertex_degs) = 2
                 THEN LET i == vertex_degs[1]
                          j == vertex_degs[2]
                          term1 == Monomial(<<increment_tuple(
                                       increment_tuple(monomial_coeff, i), j + n), <<>> >>)
                          term2 == Monomial(<<increment_tuple(
                                       increment_tuple(monomial_coeff, j), i + n), <<>> >>)
                      IN  Sub(term1, term2)
                 ELSE DifferentialLoop(0, Zero, monomial_coeff, x_deg, y_deg, vertex_degs, n)

\* create_differential_morphism: compute_differential extended linearly.
differential(e, n) ==
    SumAll({<<tm, Scale(e[tm], tm[1], compute_differential(tm[2], n))>> : tm \in DOMAIN e})

----------------------------------------------------------------------------
(* product.py *)

RECURSIVE SortedTuple(_)
SortedTuple(S) ==
    IF S = {} THEN <<>>
    ELSE LET m == CHOOSE m \in S : \A o \in S : m <= o
         IN  <<m>> \o SortedTuple(S \ {m})

\* new_vdegs.index(vertex), as a Python index.
IndexOf(tup, v) == (CHOOSE p \in 1..Len(tup) : tup[p] = v /\ \A q \in 1..(p - 1) : tup[q] # v) - 1

AssertionError == "AssertionError"

scalar_multiply_basis(monomial_tuple, basis_element) ==
    IF Len(monomial_tuple) # Len(basis_element[1]) THEN AssertionError
    ELSE Monomial(<< [i \in 1..Len(monomial_tuple) |-> monomial_tuple[i] + basis_element[1][i]],
                     basis_element[2] >>)

\* Mutant: the unit at position i is not added.
coeff_without_x_increment(elem1c, elem2c, i) ==
    [j \in 1..Len(elem1c) |-> elem1c[j] + elem2c[j]]

coeff_with_x_increment(elem1c, elem2c, i) ==
    [j \in 1..Len(elem1c) |-> elem1c[j] + elem2c[j] + (IF j - 1 = i THEN 1 ELSE 0)]

coeff_with_y_increment(elem1c, elem2c, i, n) ==
    [j \in 1..Len(elem1c) |-> elem1c[j] + elem2c[j] + (IF j - 1 = n + i THEN 1 ELSE 0)]

\* The two terms the product emits for the unknowns of index k + 1.
ProductTerms(k, vertex, vdegs, elem1c, elem2c, new_x_deg, new_y_deg, n) ==
    Add(Scale(1, coeff_vars_a(k + 1),
              Monomial(<<coeff_with_x_increment(elem1c, elem2c, vertex),
                         << <<new_x_deg - 1, new_y_deg>>, vdegs >> >>)),
        Scale(1, coeff_vars_b(k + 1),
              Monomial(<<coeff_with_y_increment(elem1c, elem2c, vertex, n),
                         << <<new_x_deg, new_y_deg - 1>>, vdegs >> >>)))

\* The loop over enumerate(new_vdegs) of the empty-intersection case.
RECURSIVE DisjointLoop(_, _, _, _, _, _, _, _)
DisjointLoop(k, result, new_vdegs, elem1c, elem2c, new_x_deg, new_y_deg, n) ==
    IF k >= Len(new_vdegs) THEN result
    ELSE DisjointLoop(k + 1,
             Add(result, ProductTerms(k, new_vdegs[k + 1], RemoveAt(new_vdegs, k + 1),
                                      elem1c, elem2c, new_x_deg, new_y_deg, n)),
             new_vdegs, elem1c, elem2c, new_x_deg, new_y_deg, n)

\* Lines 74-127: the vertex-intersection case split.
IntersectionCases(elem1, elem2, n) ==
    LET vdegs1 == elem1[2][2]
        vdegs2 == elem2[2][2]
        new_vdegs == SortedTuple(Range(vdegs1) \cup Range(vdegs2))
        new_x_deg == elem1[2][1][1] + elem2[2][1][1]
        new_y_deg == elem1[2][1][2] + elem2[2][1][2]
        intersection == Range(vdegs1) \cap Range(vdegs2)
    IN  IF Cardinality(intersection) = 0
        THEN DisjointLoop(0, Zero, new_vdegs, elem1[1], elem2[1], new_x_deg, new_y_deg, n)
        ELSE IF Cardinality(intersection) = 1
        THEN LET vertex == CHOOSE v \in intersection : TRUE
                 k == IndexOf(new_vdegs, vertex)
             IN  ProductTerms(k, vertex, new_vdegs, elem1[1], elem2[1], new_x_deg, new_y_deg, n)
        ELSE Zero

\* Mutant: the second vertices are compared instead of the first.
SwapOnSecondVertex(hdeg1, hdeg2, vdegs1, vdegs2) ==
    hdeg1 = 2 /\ hdeg2 = 2 /\ vdegs1[2] > vdegs2[2]

\* Mutant: the swap is applied whatever the lengths of the vertex tuples.
SwapAtAnyDegree(hdeg1, hdeg2, vdegs1, vdegs2) == vdegs1[1] > vdegs2[1]

\* Line 69: the two factors are swapped.
SwapCondition(hdeg1, hdeg2, vdegs1, vdegs2) ==
    hdeg1 = 2 /\ hdeg2 = 2 /\ vdegs1[1] > vdegs2[1]

\* A call of compute_multigraded_product: its value and the number of
\* recursive calls it made.
RECURSIVE ProductCall(_, _, _)
ProductCall(elem1, elem2, n) ==
    IF elem1[2] = <<>> THEN [val |-> scalar_multiply_basis(elem1[1], elem2), swaps |-> 0]
    ELSE IF elem2[2] = <<>> THEN [val |-> scalar_multiply_basis(elem2[1], elem1), swaps |-> 0]
    ELSE LET hdeg1 == Len(elem1[2][2])
             hdeg2 == Len(elem2[2][2])
         IN  IF hdeg1 + hdeg2 > n + 1 THEN [val |-> Zero, swaps |-> 0]
             ELSE IF SwapCondition(hdeg1, hdeg2, elem1[2][2], elem2[2][2])
             THEN LET inner == ProductCall(elem2, elem1, n)
                  IN  [val |-> Neg(inner.val), swaps |-> inner.swaps + 1]
             ELSE [val |-> IntersectionCases(elem1, elem2, n), swaps |-> 0]

compute_multigraded_product(basis_pair, n) == ProductCall(basis_pair[1], basis_pair[2], n).val

\* create_product_morphism: compute_multigraded_product extended linearly.
product(e, n) ==
    SumAll({<<tm, Scale(e[tm], tm[1], compute_multigraded_product(tm[2], n))>> : tm \in DOMAIN e})

----------------------------------------------------------------------------
(* leibniz.py *)

element_degree(element) ==
    IF element = Zero THEN 0
    ELSE LET first_term == (CHOOSE tm \in DOMAIN element : TRUE)[2]
         IN  IF first_term[2] = <<>> THEN 0
             ELSE first_term[2][1][1] + first_term[2][1][2]

compute_leibniz_expression(e1, e2, n) ==
    LET deg_f == element_degree(e1)
        df_tensor_g == tensor(differential(e1, n), e2)
        f_tensor_dg == tensor(e1, differential(e2, n))
        product_df_g == product(df_tensor_g, n)
        product_f_dg == product(f_tensor_dg, n)
    IN  IF deg_f % 2 = 0
        THEN Sub(product_df_g, product_f_dg)
        ELSE Add(product_df_g, product_f_dg)

\* verify_leibniz_rule, with the difference it tests for zero.
LeibnizDifference(e1, e2, n) ==
    LET leibniz == compute_leibniz_expression(e1, e2, n)
        product_result == product(tensor(e1, e2), n)
        d_prod == differential(product_result, n)
    IN  Sub(d_prod, leibniz)

verify_leibniz_rule(e1, e2, n) == LeibnizDifference(e1, e2, n) = Zero

----------------------------------------------------------------------------
(* Scenario: a direct call of combination_to_tuple on a valid input. *)

NoGrading == combination = Unset /\ total_degree = Unset /\ t = Unset
NoBasis ==
    homological_degree = Unset /\ ring_degree = Unset /\ basis = Unset /\ all_basis = Unset
NoElems == f1 = Unset /\ f2 = Unset
NoDifferential == df1 = Unset /\ ddf1 = Unset
NoProduct == product_fg = Unset /\ product_gf = Unset /\ swaps = Unset
NoLeibniz == leibniz_expr = Unset /\ d_product = Unset /\ verified = Unset

ValidCombinations(total, m) == Range(Combinations(total + m, m))

InitGrading ==
    /\ pc = "grading"
    /\ total_degree \in 0..MaxTotalDegree
    /\ \E m \in 0..MaxCombinationLen : combination \in ValidCombinations(total_degree, m)
    /\ t = Unset
    /\ n_vertices = Unset
    /\ NoBasis
    /\ NoElems
    /\ NoDifferential
    /\ NoProduct
    /\ NoLeibniz

CallCombinationToTuple ==
    /\ pc = "grading"
    /\ pc' = "combination_to_tuple"
    /\ t' = combination_to_tuple(combination, total_degree)
    /\ UNCHANGED <<n_vertices, combination, total_degree, basisVars, elemVars,
                   diffVars, prodVars, leibnizVars>>

SpecGrading == InitGrading /\ [][CallCombinationToTuple]_vars

----------------------------------------------------------------------------
(* Scenario: a direct call of compute_basis_elements. *)

InitBasis ==
    /\ pc = "start"
    /\ n_vertices \in 1..MaxVertices
    /\ homological_degree \in 0..MaxVertices
    /\ ring_degree \in 0..MaxRingDegree
    /\ basis = Unset
    /\ all_basis = Unset
    /\ NoGrading
    /\ NoElems
    /\ NoDifferential
    /\ NoProduct
    /\ NoLeibniz

CallComputeBasisElements ==
    /\ pc = "start"
    /\ pc' = "compute_basis_elements"
    /\ basis' = compute_basis_elements(homological_degree, ring_degree, n_vertices)
    /\ UNCHANGED <<n_vertices, gradingVars, homological_degree, ring_degree, all_basis,
                   elemVars, diffVars, prodVars, leibnizVars>>

SpecBasis == InitBasis /\ [][CallComputeBasisElements]_vars

----------------------------------------------------------------------------
(* Scenario: main.py builds the free module F at one ring degree, then the *)
(* differential morphism is applied to a basis element, and again to the   *)
(* result.                                                                 *)

HomologicalDegree(key) == IF key[2] = <<>> THEN 0 ELSE Len(key[2][2]) - 1

InitModule ==
    /\ pc = "main"
    /\ n_vertices \in 1..MaxVertices
    /\ ring_degree \in 0..MaxRingDegree
    /\ homological_degree = Unset
    /\ basis = Unset
    /\ all_basis = Unset
    /\ NoGrading
    /\ NoElems
    /\ NoDifferential
    /\ NoProduct
    /\ NoLeibniz

\* main.py, lines 34-41: basis_at_degree for hdeg in range(n_vertices).
BuildFreeModule ==
    /\ pc = "main"
    /\ LET basis_at_degree == [hdeg \in 0..(n_vertices - 1) |->
                                  compute_basis_elements(hdeg, ring_degree, n_vertices)]
       IN  IF \A hdeg \in 0..(n_vertices - 1) : basis_at_degree[hdeg].ok
           THEN /\ all_basis' = [hdeg \in 0..(n_vertices - 1) |-> basis_at_degree[hdeg].val]
                /\ pc' = "module"
           ELSE /\ all_basis' = all_basis
                /\ pc' = "raised"
    /\ UNCHANGED <<n_vertices, gradingVars, homological_degree, ring_degree, basis,
                   elemVars, diffVars, prodVars, leibnizVars>>

ApplyDifferential ==
    /\ pc = "module"
    /\ \E hdeg \in 0..(n_vertices - 1) :
         \E b \in Range(all_basis[hdeg]) :
            /\ f1' = b
            /\ df1' = differential(Monomial(b), n_vertices)
    /\ pc' = "differential"
    /\ UNCHANGED <<n_vertices, gradingVars, basisVars, f2, ddf1, prodVars, leibnizVars>>

ApplyDifferentialTwice ==
    /\ pc = "differential"
    /\ ddf1' = differential(df1, n_vertices)
    /\ pc' = "differential2"
    /\ UNCHANGED <<n_vertices, gradingVars, basisVars, elemVars, df1, prodVars, leibnizVars>>

NextDifferential == BuildFreeModule \/ ApplyDifferential \/ ApplyDifferentialTwice

SpecDifferential == InitModule /\ [][NextDifferential]_vars

----------------------------------------------------------------------------
(* Scenario: the basis at a target bidegree is computed, then two basis    *)
(* elements whose bidegrees add up to it are multiplied in both orders.    *)

\* Ring degree of the basis elements of homological degree h whose
\* coefficient vector has degree c.
RingDegreeAt(h, c) == IF h = 0 THEN c ELSE c + h + 1

RingDegree(key) == RingDegreeAt(HomologicalDegree(key), SumTuple(key[1]))

\* The basis elements of one bidegree; none when the enumeration raises.
BasisKeys(h, r, n) ==
    LET call == compute_basis_elements(h, r, n)
    IN  IF call.ok THEN Range(call.val) ELSE {}

\* Ordered pairs of basis elements of total coefficient degree <= MaxCoeffDegree
\* whose homological degrees add up to hsum and ring degrees to rsum.
OperandPairs(hsum, rsum, n) ==
    UNION {BasisKeys(h1, r1, n) \X BasisKeys(hsum - h1, rsum - r1, n) :
              <<h1, r1>> \in {hr \in (0..hsum) \X (0..rsum) :
                  /\ CoeffDegree(hr[1], hr[2]) >= 0
                  /\ CoeffDegree(hsum - hr[1], rsum - hr[2]) >= 0
                  /\ CoeffDegree(hr[1], hr[2]) + CoeffDegree(hsum - hr[1], rsum - hr[2])
                         <= MaxCoeffDegree}}

InitProduct ==
    /\ pc = "start"
    /\ n_vertices \in 1..MaxVertices
    /\ homological_degree \in 0..(2 * (n_vertices - 1))
    /\ ring_degree \in 0..(homological_degree + 2 + MaxCoeffDegree)
    /\ basis = Unset
    /\ all_basis = Unset
    /\ NoGrading
    /\ NoElems
    /\ NoDifferential
    /\ NoProduct
    /\ NoLeibniz

MultiplyPair ==
    /\ pc = "compute_basis_elements"
    /\ \E pair \in OperandPairs(homological_degree, ring_degree, n_vertices) :
          /\ f1' = pair[1]
          /\ f2' = pair[2]
          /\ product_fg' = ProductCall(pair[1], pair[2], n_vertices).val
          /\ swaps' = ProductCall(pair[1], pair[2], n_vertices).swaps
          /\ product_gf' = compute_multigraded_product(<<pair[2], pair[1]>>, n_vertices)
    /\ pc' = "product"
    /\ UNCHANGED <<n_vertices, gradingVars, basisVars, diffVars, leibnizVars>>

NextProduct == CallComputeBasisElements \/ MultiplyPair

SpecProduct == InitProduct /\ [][NextProduct]_vars

----------------------------------------------------------------------------
(* Scenario: the Leibniz expression of two basis elements is computed and  *)
(* the Leibniz rule is tested, for main.py's pair and for small pairs.     *)

\* main.py, lines 51-53.
MainF1 == <<ZeroTuple(2 * MainVertices), << <<1, 1>>, <<0, 1>> >> >>
MainF2 == <<ZeroTuple(2 * MainVertices), << <<1, 2>>, <<1, 2, 3>> >> >>

IsMainScenario == n_vertices = MainVertices /\ f1 = MainF1 /\ f2 = MainF2

InitLeibniz ==
    /\ pc = "pair"
    /\ \/ n_vertices = MainVertices /\ f1 = MainF1 /\ f2 = MainF2
       \/ /\ n_vertices \in 1..MaxLeibnizVertices
          /\ \E hsum \in 0..(2 * (n_vertices - 1)) :
                \E rsum \in 0..(hsum + 2 + MaxCoeffDegree) :
                   \E pair \in OperandPairs(hsum, rsum, n_vertices) :
                      f1 = pair[1] /\ f2 = pair[2]
    /\ NoGrading
    /\ NoBasis
    /\ NoDifferential
    /\ NoProduct
    /\ NoLeibniz

CallLeibnizExpression ==
    /\ pc = "pair"
    /\ leibniz_expr' = compute_leibniz_expression(Monomial(f1), Monomial(f2), n_vertices)
    /\ pc' = "leibniz_expression"
    /\ UNCHANGED <<n_vertices, gradingVars, basisVars, elemVars, diffVars, prodVars,
                   d_product, verified>>

CallVerifyLeibnizRule ==
    /\ pc = "leibniz_expression"
    /\ d_product' = differential(product(tensor(Monomial(f1), Monomial(f2)), n_vertices),
                                 n_vertices)
    /\ verified' = verify_leibniz_rule(Monomial(f1), Monomial(f2), n_vertices)
    /\ pc' = "verify_leibniz_rule"
    /\ UNCHANGED <<n_vertices, gradingVars, basisVars, elemVars, diffVars, prodVars,
                   leibniz_expr>>

NextLeibniz == CallLeibnizExpression \/ CallVerifyLeibnizRule

SpecLeibniz == InitLeibniz /\ [][NextLeibniz]_vars

----------------------------------------------------------------------------
(* The whole package: every scenario and every call. *)

Init == InitGrading \/ InitBasis \/ InitModule \/ InitProduct \/ InitLeibniz

Next ==
    \/ CallCombinationToTuple
    \/ CallComputeBasisElements
    \/ BuildFreeModule
    \/ ApplyDifferential
    \/ ApplyDifferentialTwice
    \/ MultiplyPair
    \/ CallLeibnizExpression
    \/ CallVerifyLeibnizRule

Spec == Init /\ [][Next]_vars

----------------------------------------------------------------------------
(* Reference notions used to state the properties. *)

RECURSIVE Binomial(_, _)
Binomial(n, k) ==
    IF k = 0 THEN 1
    ELSE IF n = 0 THEN 0
    ELSE Binomial(n - 1, k - 1) + Binomial(n - 1, k)

\* Number of ordered tuples of `parts` nonnegative integers summing to c:
\* the first part is 0, or it is one more than the first part of a tuple
\* summing to c - 1.
RECURSIVE NumCompositions(_, _)
NumCompositions(c, parts) ==
    IF c < 0 THEN 0
    ELSE IF parts = 0 THEN (IF c = 0 THEN 1 ELSE 0)
    ELSE IF c = 0 THEN 1
    ELSE NumCompositions(c, parts - 1) + NumCompositions(c - 1, parts)

StrictlyIncreasing(tup) == \A i \in 1..(Len(tup) - 1) : tup[i] < tup[i + 1]

\* key has the shape of a basis element of bidegree (h, r) on n vertices.
WellFormedKey(key, h, r, n) ==
    /\ Len(key[1]) = 2 * n
    /\ \A i \in 1..Len(key[1]) : key[1][i] >= 0
    /\ SumTuple(key[1]) = CoeffDegree(h, r)
    /\ IF h = 0 THEN key[2] = <<>>
       ELSE /\ key[2] # <<>>
            /\ key[2][1][1] >= 1
            /\ key[2][1][2] >= 1
            /\ key[2][1][1] + key[2][1][2] = h + 1
            /\ Len(key[2][2]) = h + 1
            /\ StrictlyIncreasing(key[2][2])
            /\ \A i \in 1..Len(key[2][2]) : key[2][2][i] \in 0..(n - 1)

BothDegreeOne == HomologicalDegree(f1) = 1 /\ HomologicalDegree(f2) = 1

----------------------------------------------------------------------------
(* The properties. *)

\* C1: for every basis element b of homological degree >= 2 (vertex tuple
\* of length >= 3), differential(differential(b)) is the exact additive
\* zero.
C1_ChainProperty ==
    (pc = "differential2" /\ HomologicalDegree(f1) >= 2) => ddf1 = Zero

C1_Witness ==
    /\ pc = "differential2"
    /\ HomologicalDegree(f1) = 3
    /\ Cardinality(DOMAIN df1) = 8
    /\ ddf1 = Zero

\* C2 as stated: in main.py's scenario (n_vertices = 5, f1 and f2 at the
\* zero coefficient vector with S-parts ((1,1),(0,1)) and ((1,2),(1,2,3)))
\* verify_leibniz_rule returns true.
C2_VerifyReturnsTrue ==
    (pc = "verify_leibniz_rule" /\ IsMainScenario) => verified = TRUE

MainKey == <<increment_tuple(increment_tuple(ZeroTuple(2 * MainVertices), 1), MainVertices),
             << <<1, 2>>, <<1, 2, 3>> >> >>

\* C2 amended: in main.py's scenario verify_leibniz_rule returns false; the
\* difference d(p(f1 (x) f2)) - leibniz_expr is not zero: on the basis key
\* (e_1 + e_5, ((1,2),(1,2,3))) its coefficient is 1 - A[2].
C2_VerifyReturnsFalse ==
    (pc = "verify_leibniz_rule" /\ IsMainScenario) =>
        /\ verified = FALSE
        /\ Coefficient(Sub(d_product, leibniz_expr), <<One, MainKey>>) = 1
        /\ Coefficient(Sub(d_product, leibniz_expr), <<coeff_vars_a(2), MainKey>>) = -1

C2_Witness ==
    /\ pc = "verify_leibniz_rule"
    /\ IsMainScenario
    /\ Cardinality(DOMAIN d_product) = 12
    /\ verified = FALSE

\* C3: for every valid input (total_degree >= 0, a strictly increasing
\* combination of any length m >= 0, m = 1 included, from
\* 0 .. total_degree + m - 1) combination_to_tuple returns normally a tuple
\* of m + 1 nonnegative integers summing to total_degree.
C3_Postcondition ==
    pc = "combination_to_tuple" =>
        /\ t.ok
        /\ Len(t.val) = Len(combination) + 1
        /\ \A i \in 1..Len(t.val) : t.val[i] >= 0
        /\ SumTuple(t.val) = total_degree

\* C4: for n_vertices >= 1 and h >= 1 compute_basis_elements returns
\* (number of compositions of c = ring_degree - (h + 1) into 2 * n_vertices
\* parts, 0 when c < 0) * (h * C(n_vertices, h + 1)) elements, pairwise
\* distinct.
C4_BasisCardinality ==
    (pc = "compute_basis_elements" /\ homological_degree >= 1) =>
        /\ basis.ok
        /\ Len(basis.val) =
               NumCompositions(ring_degree - (homological_degree + 1), 2 * n_vertices)
               * (homological_degree * Binomial(n_vertices, homological_degree + 1))
        /\ Cardinality(Range(basis.val)) = Len(basis.val)

C4_Witness ==
    /\ pc = "compute_basis_elements"
    /\ homological_degree = 2
    /\ n_vertices = 4
    /\ basis.ok
    /\ Len(basis.val) = 64

\* C5: compute_leibniz_expression(f, g) = p(d(f) (x) g) + (-1)^|f| p(f (x) d(g)),
\* |f| the homological degree of f, for degree 0 as for positive degrees.
C5_LeibnizSign ==
    pc = "leibniz_expression" =>
        leibniz_expr =
            LET product_df_g == product(tensor(differential(Monomial(f1), n_vertices),
                                               Monomial(f2)), n_vertices)
                product_f_dg == product(tensor(Monomial(f1),
                                               differential(Monomial(f2), n_vertices)),
                                        n_vertices)
            IN  IF HomologicalDegree(f1) % 2 = 0
                THEN Add(product_df_g, product_f_dg)
                ELSE Sub(product_df_g, product_f_dg)

\* C6: for f, g of homological degree 1 the product of (f, g) is plus or
\* minus the product of (g, f), it is the negation whenever their first
\* vertices differ, and the call recurses at most once.
C6_SwapRule ==
    (pc = "product" /\ BothDegreeOne) =>
        /\ product_fg = product_gf \/ product_fg = Neg(product_gf)
        /\ f1[2][2][1] # f2[2][2][1] => product_fg = Neg(product_gf)
        /\ swaps <= 1

C6_Witness ==
    /\ pc = "product"
    /\ BothDegreeOne
    /\ swaps = 1
    /\ product_fg # Zero
    /\ product_fg = Neg(product_gf)

\* C7: for every pair f, g of homological degree 1, pairs sharing their
\* first vertex included, the product of (f, g) is the negation of the
\* product of (g, f).
C7_Anticommutative ==
    (pc = "product" /\ BothDegreeOne) => product_fg = Neg(product_gf)

\* C8: for b of homological degree h >= 1 and ring degree r every key of
\* compute_differential(b) is in compute_basis_elements(h - 1, r, n_vertices)
\* and has that shape; for h = 0 the differential is zero.
C8_DifferentialLandsInBasis ==
    pc \in {"differential", "differential2"} =>
        IF HomologicalDegree(f1) = 0 THEN df1 = Zero
        ELSE \A tm \in DOMAIN df1 :
                /\ tm[1] = One
                /\ tm[2] \in Range(all_basis[HomologicalDegree(f1) - 1])
                /\ WellFormedKey(tm[2], HomologicalDegree(f1) - 1, ring_degree, n_vertices)

C8_Witness ==
    /\ pc = "differential"
    /\ HomologicalDegree(f1) = 2
    /\ SumTuple(f1[1]) = 1
    /\ Cardinality(DOMAIN df1) = 3

\* The pairs of basis elements of the model, on n vertices.
AllOperandPairs(n) ==
    UNION {OperandPairs(hsum, rsum, n) :
              <<hsum, rsum>> \in {hr \in (0..(2 * (n - 1))) \X (0..(2 * n + MaxCoeffDegree)) :
                                    hr[2] <= hr[1] + 2 + MaxCoeffDegree}}

\* C9 as stated: some f, g, not both of vertex-tuple length 2, have
\* different products in the two orders (searched, when a scenario starts,
\* among all the pairs of the model).
C9_CallOrderDependence ==
    pc = "start" =>
        \E n \in 1..MaxVertices :
            \E pair \in AllOperandPairs(n) :
                /\ ~(HomologicalDegree(pair[1]) = 1 /\ HomologicalDegree(pair[2]) = 1)
                /\ compute_multigraded_product(<<pair[1], pair[2]>>, n)
                      # compute_multigraded_product(<<pair[2], pair[1]>>, n)

\* C9 amended: for all f, g not both of vertex-tuple length 2 the product
\* of (f, g) equals the product of (g, f): outside the length-2/length-2
\* tie-break the product is symmetric under swapping its arguments.
C9_Symmetric ==
    (pc = "product" /\ ~BothDegreeOne) => product_fg = product_gf

C9_Witness ==
    /\ pc = "product"
    /\ HomologicalDegree(f1) = 2
    /\ HomologicalDegree(f2) = 1
    /\ f1[2][2][1] > f2[2][2][1]
    /\ product_fg # Zero
    /\ product_fg = product_gf

\* C10: for f, g of homological degrees h1, h2 >= 1 and ring degrees r1, r2
\* every key of the product is in compute_basis_elements(h1 + h2, r1 + r2,
\* n_vertices) and has that shape, and every unknown used is A[i] or B[i]
\* with 1 <= i <= n_vertices.
C10_ProductWellFormed ==
    (pc = "product" /\ HomologicalDegree(f1) >= 1 /\ HomologicalDegree(f2) >= 1) =>
        /\ homological_degree = HomologicalDegree(f1) + HomologicalDegree(f2)
        /\ ring_degree = RingDegree(f1) + RingDegree(f2)
        /\ basis.ok
        /\ \A tm \in DOMAIN product_fg :
              /\ tm[2] \in Range(basis.val)
              /\ WellFormedKey(tm[2], homological_degree, ring_degree, n_vertices)
              /\ \E i \in 1..n_vertices : tm[1] \in {coeff_vars_a(i), coeff_vars_b(i)}

C10_Witness ==
    /\ pc = "product"
    /\ HomologicalDegree(f1) = 1
    /\ HomologicalDegree(f2) = 1
    /\ Cardinality(DOMAIN product_fg) = 8
    /\ \E tm \in DOMAIN product_fg : tm[1] = coeff_vars_a(n_vertices)

====
